---- MODULE Spec2Model ----
(***************************************************************************)
(* State-machine model of src/autocomplete.py (SublimeHaskell): the        *)
(* CompletionCache, the AutoCompletion coordinator and the operations the  *)
(* editor hooks call on them.                                              *)
(*                                                                         *)
(* Python values are rendered as follows.  A completion candidate (a pair  *)
(* of display and insert strings) is a 2-tuple of strings.  A list is a    *)
(* sequence.  The dict cache.files is a function whose DOMAIN is the set   *)
(* of keys.  None is the string "None".  list(set(xs)) yields the distinct *)
(* elements of xs in an order that depends on string hashing, which        *)
(* changes from one interpreter run to the next: it is modelled as a       *)
(* nondeterministic choice among all orderings of the distinct elements.   *)
(***************************************************************************)
EXTENDS Integers, Sequences, FiniteSets, TLC

VARIABLES
    files,             \* CompletionCache.files: file name -> candidate list
    cabal,             \* CompletionCache.cabal
    sources,           \* CompletionCache.sources
    global_comps,      \* CompletionCache.global_comps
    language_pragmas,  \* AutoCompletion.language_pragmas
    flags_pragmas,     \* AutoCompletion.flags_pragmas
    current_filename,  \* AutoCompletion.current_filename
    wide_completion,   \* AutoCompletion.wide_completion
    connected,         \* whether the hsdev agent is connected (environment)
    op,                \* history: the operation that ran last, with its arguments
    result,            \* history: what that operation returned
    queries,           \* history: the backend queries that operation issued
    langQueries,       \* history: number of backend queries for the LANGUAGE list
    flagQueries,       \* history: number of backend queries for the flag list
    tasks,             \* the background tasks and the request in progress, by slot
    lock,              \* the slot that holds the lock of AutoCompletion.cache, or 0
    data,              \* the version of the backend's data about the files
    active             \* the file of the active view, or None

cacheVars == <<files, cabal, sources, global_comps>>
pragmaVars == <<language_pragmas, flags_pragmas, langQueries, flagQueries>>
taskVars == <<tasks, lock, data, active>>
historyVars == <<op, result, queries>>
vars == <<files, cabal, sources, global_comps, language_pragmas, flags_pragmas,
          current_filename, wide_completion, connected, op, result, queries,
          langQueries, flagQueries, tasks, lock, data, active>>

None == "None"

-----------------------------------------------------------------------------
(* Bounds of the model *)

\* longest list handed to set_cabal / set_sources or returned by a backend query
MaxLen == 1

\* cap on the counted backend queries for each pragma list
MaxQueries == 2

-----------------------------------------------------------------------------
(* Sequences *)

Range(s) == {s[i] : i \in 1..Len(s)}

NoDuplicates(s) == \A i, j \in 1..Len(s) : s[i] = s[j] => i = j

\* all lists over S of length at most n
SeqsUpTo(S, n) == UNION {[1..k -> S] : k \in 0..n}

\* all orderings of the finite set S
Orderings(S) == {s \in [1..Cardinality(S) -> S] : Range(s) = S}

-----------------------------------------------------------------------------
(* Candidates *)

\* symbols the backend knows, as the (display, insert) pairs suggest() gives
Cand == {<<"bar\tFn", "bar">>, <<"foo\tFn", "foo">>}

\* the keywords of AutoCompletion.__init__
Keywords == <<"do", "case", "of", "let", "in", "data", "instance", "type",
              "newtype", "where", "deriving", "import", "module">>

keyword_completions == [i \in 1..Len(Keywords) |-> <<Keywords[i] \o "\tkeyword", Keywords[i]>>]

\* Python orders strings by code point; the display strings that the model
\* sorts, listed in that order ('D' < 'M' < 'b' < 'f')
DisplayOrder == <<"Data.List\tmodule", "M\tmodule Data.Map", "bar\tFn", "foo\tFn">>

DisplayRank(d) == CHOOSE i \in 1..Len(DisplayOrder) : DisplayOrder[i] = d

\* comps.sort(key=lambda k: k[0]) leaves the list in this order
SortedByDisplay(s) ==
    \A i \in 1..(Len(s) - 1) : DisplayRank(s[i][1]) <= DisplayRank(s[i + 1][1])

\* insertion of c behind every element whose display is not greater (stable)
RECURSIVE InsertByDisplay(_, _)
InsertByDisplay(c, s) ==
    IF s = <<>> THEN <<c>>
    ELSE IF DisplayRank(s[Len(s)][1]) <= DisplayRank(c[1]) THEN Append(s, c)
         ELSE Append(InsertByDisplay(c, SubSeq(s, 1, Len(s) - 1)), s[Len(s)])

\* sort_completions: list.sort is a stable sort on the display string
RECURSIVE sort_completions(_)
sort_completions(comps) ==
    IF comps = <<>> THEN <<>>
    ELSE InsertByDisplay(comps[Len(comps)],
                         sort_completions(SubSeq(comps, 1, Len(comps) - 1)))

\* sorted_completions with a fault: the duplicates are kept
sorted_completions_keep_duplicates(comps) == {comps}

\* sorted_completions: list(set(comps)); the set of lists it may return
sorted_completions(comps) == Orderings(Range(comps))

\* make_completions over the list of suggest() pairs of the suggestions
make_completions(suggestions) == sorted_completions(suggestions)

-----------------------------------------------------------------------------
(* Editor views and files *)

FileNames == {"A.hs", "B.hs"}

Views == {"V1", "V2", "V3"}

\* view.file_name(): V3 is an unsaved buffer
ViewFile == [v \in Views |-> CASE v = "V1" -> "A.hs" [] v = "V2" -> "B.hs" [] OTHER -> None]

\* the lists a caller hands to set_cabal / set_sources, and the suggestion
\* lists the backend answers a completion query with
CandLists == SeqsUpTo(Cand, MaxLen)


\* an import of the current module: Import.module and Import.import_as
ImportDataList == [module |-> "Data.List", import_as |-> None]
ImportDataMapAsM == [module |-> "Data.Map", import_as |-> "M"]

\* current_module.imports as the backend reports it: no import, one aliased
\* import, the same module imported on two lines
ImportLists == {<<>>, <<ImportDataMapAsM>>, <<ImportDataList, ImportDataList>>}

IsAliased(i) == i.import_as # None
IsNotAliased(i) == i.import_as = None

\* the import_names of get_completions_async: the aliased imports first,
\* then the others
import_names(imports) ==
    LET aliased == SelectSeq(imports, IsAliased)
        plain == SelectSeq(imports, IsNotAliased)
    IN  [i \in 1..Len(aliased) |->
            <<aliased[i].import_as \o "\tmodule " \o aliased[i].module, aliased[i].import_as>>]
        \o [i \in 1..Len(plain) |-> <<plain[i].module \o "\tmodule", plain[i].module>>]

-----------------------------------------------------------------------------
(* History *)

NoCtx == [module |-> None, is_import_list |-> FALSE]

\* name: the operation; target: its view or file_name argument; ctx: the
\* cursor context of the request; wide: the local variable wide of
\* get_completions; conn: whether the backend was connected when it ran
OpRec(name, target, ctx, wide, conn) ==
    [name |-> name, target |-> target, ctx |-> ctx, wide |-> wide, conn |-> conn]

\* The decorator hsdev.use_hsdev(def_val): the decorated method runs only
\* while the agent is connected; otherwise the call returns def_val.
use_hsdev == connected

-----------------------------------------------------------------------------
(* CompletionCache *)

\* CompletionCache.set_cabal
set_cabal(comps) ==
    /\ cabal' = comps
    /\ global_comps' \in sorted_completions(comps \o sources)
    /\ op' = OpRec("set_cabal", None, NoCtx, FALSE, connected)
    /\ result' = <<>>
    /\ queries' = {}
    /\ UNCHANGED <<files, sources, pragmaVars, current_filename, wide_completion, connected>>

\* CompletionCache.set_sources
set_sources(comps) ==
    /\ sources' = comps
    /\ global_comps' \in sorted_completions(cabal \o comps)
    /\ op' = OpRec("set_sources", None, NoCtx, FALSE, connected)
    /\ result' = <<>>
    /\ queries' = {}
    /\ UNCHANGED <<files, cabal, pragmaVars, current_filename, wide_completion, connected>>

\* CompletionCache.global_completions
global_completions == global_comps

-----------------------------------------------------------------------------
(* AutoCompletion: the file cache *)

\* DictSet with a fault: nothing is stored
DictSetNothing(d, k, v) == d

\* DictSet with a fault: the dict is replaced by one with the new entry alone
DictSetOnly(d, k, v) == [x \in {k} |-> v]

\* d[k] = v on a dict
DictSet(d, k, v) == [x \in DOMAIN d \cup {k} |-> IF x = k THEN v ELSE d[x]]

\* the lists get_completions_async may compute for a file whose module the
\* backend resolved: the completions of the empty prefix, the import names
\* appended, sorted by display
ResolvedComps(suggestions, imports) ==
    {sort_completions(c \o import_names(imports)) : c \in make_completions(suggestions)}

\* DroppedFiles with a fault: the entries stay
DroppedFilesKept(fs, file_name) == fs

\* DroppedFiles with a fault: every entry is dropped whatever file is named
DroppedFilesAll(fs, file_name) == [x \in {} |-> <<>>]

\* the cache.files that drop_completions_async leaves
DroppedFiles(fs, file_name) ==
    IF file_name = None THEN [x \in {} |-> <<>>]
    ELSE IF file_name \in DOMAIN fs THEN [x \in DOMAIN fs \ {file_name} |-> fs[x]]
    ELSE fs

\* AutoCompletion.drop_completions_async (not wrapped by use_hsdev)
drop_completions_async(file_name) ==
    /\ files' = DroppedFiles(files, file_name)
    /\ op' = OpRec("drop_completions_async", file_name, NoCtx, FALSE, connected)
    /\ result' = <<>>
    /\ queries' = {}
    /\ UNCHANGED <<cabal, sources, global_comps, pragmaVars, current_filename,
                   wide_completion, connected>>

\* IsCached with a fault: an entry is never found
IsCachedNever(fs, file_name) == FALSE

\* "if file_name in cache_.files"
IsCached(fs, file_name) == file_name \in DOMAIN fs

\* AutoCompletion.get_completions_async, run without interleaving.
\* The backend answers hsdev.client_back.module(file=file_name) with no
\* module or with a module and its imports, and complete('', file_name)
\* with a list of suggestions.  update_cabal_completions and
\* update_sources_completions are empty, so the two flags computed under the
\* first lock have no effect.
get_completions_async(file_name) ==
    /\ op' = OpRec("get_completions_async", file_name, NoCtx, FALSE, connected)
    /\ UNCHANGED <<cabal, sources, global_comps, pragmaVars, current_filename,
                   wide_completion, connected>>
    /\ IF ~use_hsdev
       THEN /\ result' = <<>>
            /\ queries' = {}
            /\ UNCHANGED files
       ELSE IF IsCached(files, file_name)
       THEN /\ result' = files[file_name]
            /\ queries' = {}
            /\ UNCHANGED files
       ELSE IF file_name = None
       THEN /\ result' = global_completions
            /\ queries' = {}
            /\ UNCHANGED files
       ELSE \/ /\ queries' = {"module"}
               /\ files' = DictSet(files, file_name, global_completions)
               /\ result' = global_completions
            \/ /\ queries' = {"module", "complete"}
               /\ \E suggestions \in CandLists, imports \in ImportLists :
                     \E comps \in ResolvedComps(suggestions, imports) :
                        /\ files' = DictSet(files, file_name, comps)
                        /\ result' = comps

-----------------------------------------------------------------------------
(* AutoCompletion: the interactive request *)

\* the cursor contexts Common.get_qualified_symbol reports: a plain name, a
\* name qualified by a module prefix, a name inside the import list of a module
QSymbols == {[module |-> None, is_import_list |-> FALSE],
             [module |-> "M", is_import_list |-> FALSE],
             [module |-> "Data.List", is_import_list |-> TRUE]}

\* what the lookups of the import-list branch find: no current module or no
\* project, a module of the project's sources, a module of a cabal package,
\* a module that is neither.  The exact lookup of qsymbol.module is taken to
\* find a module: what Utils.head_of gives for an empty answer is not part
\* of this file.
Lookups == {"no_project", "by_source", "by_cabal", "neither"}

\* AutoCompletion.mark_wide_completion
mark_wide_completion(view) ==
    /\ wide_completion' = view
    /\ op' = OpRec("mark_wide_completion", view, NoCtx, FALSE, connected)
    /\ result' = <<>>
    /\ queries' = {}
    /\ UNCHANGED <<cacheVars, pragmaVars, current_filename, connected>>

\* HasFileName with a fault: a view without a file name gets through
HasFileNameAlways(file_name) == TRUE

\* "if not current_file_name: return []"
HasFileName(file_name) == file_name # None

\* DropWide with a fault: the marker stays in place
DropWideNever(wide) == wide_completion

\* "if wide: self.wide_completion = None": the marker after the request
DropWide(wide) == IF wide THEN None ELSE wide_completion

\* CachedCompletions with a fault: the entry of the file is never read
CachedCompletionsGlobalOnly(wide, file_name) == global_completions

\* the list the request reads under the lock when no module is named
CachedCompletions(wide, file_name) ==
    IF wide THEN global_completions
    ELSE IF file_name \in DOMAIN files THEN files[file_name]
    ELSE global_completions

\* the backend queries of the branch "if qsymbol.module"
ModuleQueries(qsymbol, lookup) ==
    IF ~qsymbol.is_import_list THEN {"complete"}
    ELSE CASE lookup = "no_project" -> {"module"}
           [] lookup = "by_source" -> {"module", "scope_modules", "resolve"}
           [] lookup = "by_cabal" -> {"module", "scope_modules"}
           [] OTHER -> {"module", "scope_modules"}

\* the suggestions of that branch, answer being the declarations (or the
\* completions of the qualified prefix) the backend has for the module
ModuleSuggestions(qsymbol, lookup, answer) ==
    IF ~qsymbol.is_import_list THEN answer
    ELSE IF lookup \in {"by_source", "by_cabal"} THEN answer
    ELSE <<>>

\* get_completions with a fault: the request populates the entry of its file
get_completions_populating(view, qsymbol) ==
    /\ op' = OpRec("get_completions", view, qsymbol, FALSE, connected)
    /\ result' = keyword_completions \o global_completions
    /\ queries' = {}
    /\ files' = [x \in DOMAIN files \cup {ViewFile[view]} |->
                    IF x = ViewFile[view] THEN global_completions ELSE files[x]]
    /\ UNCHANGED <<cabal, sources, global_comps, pragmaVars, current_filename,
                   wide_completion, connected>>

\* AutoCompletion.get_completions.  lookup and answer are what the backend
\* replies to the queries of the branch "if qsymbol.module".
get_completions(view, qsymbol) ==
    LET current_file_name == ViewFile[view]
        wide == wide_completion = view
    IN  /\ UNCHANGED <<cacheVars, pragmaVars, connected>>
        /\ IF ~use_hsdev \/ ~HasFileName(current_file_name)
           THEN /\ result' = <<>>
                /\ queries' = {}
                /\ op' = OpRec("get_completions", view, qsymbol, FALSE, connected)
                /\ UNCHANGED <<current_filename, wide_completion>>
           ELSE /\ current_filename' = current_file_name
                /\ wide_completion' = DropWide(wide)
                /\ op' = OpRec("get_completions", view, qsymbol, wide, connected)
                /\ IF qsymbol.module # None
                   THEN \E lookup \in (IF qsymbol.is_import_list THEN Lookups ELSE {"neither"}),
                           answer \in CandLists :
                           /\ queries' = ModuleQueries(qsymbol, lookup)
                           /\ \E c \in make_completions(ModuleSuggestions(qsymbol, lookup, answer)) :
                                 result' = keyword_completions \o c
                   ELSE /\ queries' = {}
                        /\ result' = keyword_completions \o CachedCompletions(wide, current_file_name)

-----------------------------------------------------------------------------
(* AutoCompletion: pragma values *)

\* the lists the backend has for LANGUAGE pragmas and for compiler flags; a
\* query that fails or times out is answered with the empty list
PragmaLists == {<<>>, <<"CPP">>, <<"CPP", "GADTs">>}
FlagLists == {<<>>, <<"-Wall">>}

\* Settings.PLUGIN.enable_hsdev and Settings.PLUGIN.enable_ghc_mod
BackendSettings == [enable_hsdev : BOOLEAN, enable_ghc_mod : BOOLEAN]

\* the lines get_special_completions classifies: whether LANGUAGE_RE and
\* OPTIONS_GHC_RE match, and Settings.PLUGIN.auto_complete_language_pragmas
PragmaLines == [language : BOOLEAN, options_ghc : BOOLEAN, auto : BOOLEAN]

\* get_language_pragmas and get_flags_pragmas: which backend they call
PragmaBackend(settings) ==
    IF settings.enable_hsdev THEN "hsdev"
    ELSE IF settings.enable_ghc_mod THEN "ghc_mod"
    ELSE "none"

\* what hsdev.client.langs() / flags() or ghc-mod return: without a
\* connection the hsdev client has nothing to return but the empty default
PragmaAnswers(backend, lists) ==
    IF backend = "none" THEN {<<>>}
    ELSE IF backend = "hsdev" /\ ~connected THEN {<<>>}
    ELSE lists

\* whether the call reaches a backend that can answer
ReachesBackend(backend) == backend = "ghc_mod" \/ (backend = "hsdev" /\ connected)

\* NeedsFetch with a fault: every request fetches
NeedsFetchAlways(pragmas) == TRUE

\* "if not self.language_pragmas" / "if not self.flags_pragmas"
NeedsFetch(pragmas) == pragmas = <<>>

\* [(c,) * 2 for c in pragmas]
PragmaCompletions(pragmas) == [i \in 1..Len(pragmas) |-> <<pragmas[i], pragmas[i]>>]

\* AutoCompletion.get_special_completions (not wrapped by use_hsdev), with
\* get_language_pragmas and get_flags_pragmas
get_special_completions(view, line, settings) ==
    LET backend == PragmaBackend(settings)
        asked == IF backend = "none" THEN {} ELSE {backend}
        ctx == [language |-> line.language, options_ghc |-> line.options_ghc,
                auto |-> line.auto, backend |-> backend]
    IN  /\ op' = OpRec("get_special_completions", view, ctx, FALSE, connected)
        /\ UNCHANGED <<cacheVars, current_filename, wide_completion, connected>>
        /\ IF line.auto /\ line.language
           THEN /\ UNCHANGED <<flags_pragmas, flagQueries>>
                /\ IF NeedsFetch(language_pragmas)
                   THEN /\ queries' = {q \o " langs" : q \in asked}
                        /\ IF ReachesBackend(backend)
                           THEN /\ langQueries < MaxQueries
                                /\ langQueries' = langQueries + 1
                           ELSE UNCHANGED langQueries
                        /\ \E answer \in PragmaAnswers(backend, PragmaLists) :
                              /\ language_pragmas' = answer
                              /\ result' = PragmaCompletions(answer)
                   ELSE /\ queries' = {}
                        /\ result' = PragmaCompletions(language_pragmas)
                        /\ UNCHANGED <<language_pragmas, langQueries>>
           ELSE IF line.auto /\ line.options_ghc
           THEN /\ UNCHANGED <<language_pragmas, langQueries>>
                /\ IF NeedsFetch(flags_pragmas)
                   THEN /\ queries' = {q \o " flags" : q \in asked}
                        /\ IF ReachesBackend(backend)
                           THEN /\ flagQueries < MaxQueries
                                /\ flagQueries' = flagQueries + 1
                           ELSE UNCHANGED flagQueries
                        /\ \E answer \in PragmaAnswers(backend, FlagLists) :
                              /\ flags_pragmas' = answer
                              /\ result' = PragmaCompletions(answer)
                   ELSE /\ queries' = {}
                        /\ result' = PragmaCompletions(flags_pragmas)
                        /\ UNCHANGED <<flags_pragmas, flagQueries>>
           ELSE /\ queries' = {}
                /\ result' = <<>>
                /\ UNCHANGED pragmaVars

-----------------------------------------------------------------------------
(* AutoCompletion: import completion *)

\* Module names and typed prefixes are sequences of characters, so that
\* str.split and str.startswith are computed as Python computes them.
Data_List == <<"D", "a", "t", "a", ".", "L", "i", "s", "t">>
Data_Map == <<"D", "a", "t", "a", ".", "M", "a", "p">>
Control_Concurrent_MVar ==
    <<"C", "o", "n", "t", "r", "o", "l", ".", "C", "o", "n", "c", "u", "r", "r", "e", "n", "t",
      ".", "M", "V", "a", "r">>
Qualified == <<"q", "u", "a", "l", "i", "f", "i", "e", "d">>

ModuleNames == {Data_List, Data_Map, Control_Concurrent_MVar}

\* the module sets the backend reports as in scope
ScopeAnswers == {{}, {Data_List}, {Data_List, Data_Map}, ModuleNames}

\* the text typed after "import "
TypedPrefixes ==
    {<<>>, <<"q">>, Qualified, <<"D", "a">>, <<"D", "a", "t", "a", ".">>,
     <<"C", "o", "n", "t", "r", "o", "l", ".", "C", "o", "n">>}

\* ''.join(chars)
RECURSIVE Join(_)
Join(chars) == IF chars = <<>> THEN "" ELSE chars[1] \o Join(Tail(chars))

\* s.startswith(prefix)
StartsWith(s, prefix) == Len(prefix) <= Len(s) /\ SubSeq(s, 1, Len(prefix)) = prefix

\* s.split('.'): the segments between the dots, empty segments included
RECURSIVE Split(_)
Split(s) ==
    IF \A i \in 1..Len(s) : s[i] # "."
    THEN <<s>>
    ELSE LET d == CHOOSE i \in 1..Len(s) : s[i] = "." /\ \A j \in 1..(i - 1) : s[j] # "."
         IN  <<SubSeq(s, 1, d - 1)>> \o Split(SubSeq(s, d + 1, Len(s)))

IndexError == <<"IndexError">>

\* module_next_name with a fault: the index is one too far
module_next_name_beyond(qualified_prefix, mname) ==
    LET segments == Split(mname)
        first == Len(Split(qualified_prefix)) + 1
    IN  IF first <= Len(segments) THEN segments[first] ELSE IndexError

\* module_next_name with a fault: the segments of the prefix are not skipped
module_next_name_first(qualified_prefix, mname) == Split(mname)[1]

\* module_next_name of get_module_completions_for: suffix[0] of an empty
\* suffix raises IndexError
module_next_name(qualified_prefix, mname) ==
    LET segments == Split(mname)
        first == Len(Split(qualified_prefix))
    IN  IF first <= Len(segments) THEN segments[first] ELSE IndexError

\* the set get_module_completions_for builds before list() orders it
ModuleCompletionSet(qualified_prefix, module_list) ==
    {<<Join(module_next_name(qualified_prefix, m)) \o "\tmodule",
       Join(module_next_name(qualified_prefix, m))>> :
        m \in {n \in module_list : StartsWith(n, qualified_prefix)}}

\* the lists get_module_completions_for may return
get_module_completions_for(qualified_prefix, module_list) ==
    Orderings(ModuleCompletionSet(qualified_prefix, module_list))

\* get_current_module_completions with current_dir=None: the query it issues
ScopeQuery == IF current_filename' # None THEN "scope_modules" ELSE "list_modules"

\* the lines get_import_completions classifies: one that IMPORT_SYMBOL_RE
\* matches (an import list of a module), one that IMPORT_RE_PREFIX matches
\* ("import", optionally "qualified", then the typed text), any other line;
\* auto is Settings.PLUGIN.auto_complete_imports
ImportLines ==
    {[kind |-> "import_list", qualified |-> FALSE, typed |-> <<>>, auto |-> a] : a \in BOOLEAN}
    \cup [kind : {"import_prefix"}, qualified : BOOLEAN, typed : TypedPrefixes, auto : BOOLEAN]
    \cup {[kind |-> "other", qualified |-> FALSE, typed |-> <<>>, auto |-> TRUE]}

\* IMPORT_QUALIFIED_POSSIBLE_RE matches when only the typed text follows
\* "import"; its group qualifiedprefix is then the typed text
QualifiedPossible(line) == ~line.qualified

\* "qualified_prefix == '' or 'qualified'.startswith(qualified_prefix)"
ProposeQualified(line) ==
    QualifiedPossible(line) /\ (line.typed = <<>> \/ StartsWith(Qualified, line.typed))

QualifiedCompletion == <<"qualified", "qualified ">>

\* AutoCompletion.get_import_completions with completions_for_module,
\* get_module_completions_for and get_current_module_completions
get_import_completions(view, line) ==
    /\ op' = OpRec("get_import_completions", view, line, FALSE, connected)
    /\ UNCHANGED <<cacheVars, pragmaVars, wide_completion, connected>>
    /\ IF ~use_hsdev
       THEN /\ result' = <<>>
            /\ queries' = {}
            /\ UNCHANGED current_filename
       ELSE /\ current_filename' = ViewFile[view]
            /\ IF line.auto /\ line.kind = "import_list"
               THEN /\ queries' = IF current_filename' # None THEN {"scope_modules", "module"}
                                  ELSE {"module"}
                    /\ \/ result' = <<>>
                       \/ \E declarations \in CandLists :
                             result' \in make_completions(declarations)
               ELSE IF line.auto /\ line.kind = "import_prefix"
               THEN /\ queries' = {ScopeQuery}
                    /\ \E module_list \in ScopeAnswers :
                          \E import_completions \in
                                get_module_completions_for(line.typed, module_list) :
                             result' \in
                                IF ProposeQualified(line)
                                THEN Orderings(Range(<<QualifiedCompletion>> \o import_completions))
                                ELSE Orderings(Range(import_completions))
               ELSE /\ queries' = {}
                    /\ result' = <<>>

\* AutoCompletion.get_module_completions_for called with current_dir=None.
\* modules is the argument, the empty set standing for None and for an empty
\* collection alike ("modules if modules else ..."); scope is what
\* get_current_module_completions answers when it is asked.
get_module_completions_for_call(qualified_prefix, modules) ==
    /\ UNCHANGED <<cacheVars, pragmaVars, current_filename, wide_completion, connected>>
    /\ IF ~use_hsdev
       THEN /\ result' = <<>>
            /\ queries' = {}
            /\ op' = OpRec("get_module_completions_for", None,
                           [qualified_prefix |-> qualified_prefix, module_list |-> modules],
                           FALSE, connected)
       ELSE \E scope \in (IF modules # {} THEN {modules} ELSE ScopeAnswers) :
               /\ queries' = IF modules # {} THEN {} ELSE {ScopeQuery}
               /\ op' = OpRec("get_module_completions_for", None,
                              [qualified_prefix |-> qualified_prefix, module_list |-> scope],
                              FALSE, connected)
               /\ result' \in get_module_completions_for(qualified_prefix, scope)

-----------------------------------------------------------------------------
(* The environment *)

\* the hsdev agent connects or loses its connection
AgentConnection ==
    /\ connected' = ~connected
    /\ op' = OpRec("agent", None, NoCtx, FALSE, connected')
    /\ result' = <<>>
    /\ queries' = {}
    /\ UNCHANGED <<cacheVars, pragmaVars, current_filename, wide_completion, taskVars>>

-----------------------------------------------------------------------------
(* The operations as tasks: steps between the lock boundaries *)

\* Worker.run_async starts each submitted task on its own: the tasks of
\* MaxTasks slots run interleaved, in any order.  A slot holds one task (or
\* the interactive request) over the whole run.
MaxTasks == 3

\* how many times the backend's data about the files changes
MaxSaves == 1

TaskIds == 1..MaxTasks

TaskFiles == {"A.hs"}

\* a slot no task was started in
NoTask ==
    [kind |-> "none", arg |-> None, pc |-> "done", none_comps |-> <<>>, comps |-> <<>>,
     missed |-> FALSE, overtaken |-> FALSE, ran |-> FALSE]

\* a task as Worker.run_async receives it.  missed, overtaken and ran are
\* history: whether the task found no entry under the first lock, whether
\* the backend's data changed while the task was running, and whether the
\* use_hsdev wrapper found the backend connected and ran the body.
NewTask(kind, arg, pc) ==
    [kind |-> kind, arg |-> arg, pc |-> pc, none_comps |-> <<>>, comps |-> <<>>,
     missed |-> FALSE, overtaken |-> FALSE, ran |-> FALSE]

IsFree(t) == tasks[t].kind = "none"

\* the free slot of lowest number from t up
FirstFree(from) ==
    CHOOSE t \in TaskIds : /\ t >= from
                           /\ IsFree(t)
                           /\ \A u \in TaskIds : (u >= from /\ u < t) => ~IsFree(u)

HasFree(from) == \E t \in TaskIds : t >= from /\ IsFree(t)

\* what the backend answers complete('', file_name) from its data at
\* version v: each change of a file changes the names it declares
SuggestionsAt(v) == IF v % 2 = 0 THEN <<<<"foo\tFn", "foo">>>> ELSE <<<<"bar\tFn", "bar">>>>

\* the lists a resolution from the data at version v may give
FreshComps(v) == ResolvedComps(SuggestionsAt(v), <<>>)

\* the step of a task leaves everything but the task, the lock and the file
\* entries alone
TaskFrame ==
    UNCHANGED <<cabal, sources, global_comps, pragmaVars, wide_completion, connected,
                historyVars, data, active>>

\* the use_hsdev wrapper of get_completions_async: without connection the
\* call returns [] at once
GetStart(t) ==
    /\ tasks[t].pc = "start"
    /\ tasks' = [tasks EXCEPT ![t] =
                    IF use_hsdev THEN [@ EXCEPT !.pc = "lock1", !.ran = TRUE]
                    ELSE [@ EXCEPT !.pc = "done"]]
    /\ UNCHANGED <<files, lock, current_filename>>
    /\ TaskFrame

\* "with self.cache as cache_: if file_name in cache_.files: return ...
\* else: update_cabal = ...; update_sources = ..."
GetLock1(t) ==
    /\ tasks[t].pc = "lock1"
    /\ lock = 0
    /\ lock' = t
    /\ tasks' = [tasks EXCEPT ![t] =
                    IF IsCached(files, tasks[t].arg)
                    THEN [@ EXCEPT !.pc = "return1", !.comps = files[tasks[t].arg]]
                    ELSE [@ EXCEPT !.pc = "unlock1", !.missed = TRUE]]
    /\ UNCHANGED <<files, current_filename>>
    /\ TaskFrame

\* leaving the first "with" block, by return or at its end;
\* update_cabal_completions and update_sources_completions do nothing
GetUnlock1(t) ==
    /\ tasks[t].pc \in {"return1", "unlock1"}
    /\ lock' = 0
    /\ tasks' = [tasks EXCEPT ![t].pc = IF tasks[t].pc = "return1" THEN "done" ELSE "lock2"]
    /\ UNCHANGED <<files, current_filename>>
    /\ TaskFrame

\* "with self.cache as cache_: none_comps = cache_.global_completions()"
GetLock2(t) ==
    /\ tasks[t].pc = "lock2"
    /\ lock = 0
    /\ lock' = t
    /\ tasks' = [tasks EXCEPT ![t] =
                    [@ EXCEPT !.pc = "unlock2", !.none_comps = global_completions,
                              !.comps = global_completions]]
    /\ UNCHANGED <<files, current_filename>>
    /\ TaskFrame

\* GetUnlock2 with a fault: the query is sent inside the "with" block
GetUnlock2Holding(t) ==
    /\ tasks[t].pc = "unlock2"
    /\ tasks' = [tasks EXCEPT ![t].pc = IF tasks[t].arg = None THEN "done" ELSE "module"]
    /\ UNCHANGED <<files, lock, current_filename>>
    /\ TaskFrame

\* leaving the second "with" block; "if file_name is None: return", else
\* hsdev.client_back.module(file=file_name) is sent
GetUnlock2(t) ==
    /\ tasks[t].pc = "unlock2"
    /\ lock' = 0
    /\ tasks' = [tasks EXCEPT ![t].pc = IF tasks[t].arg = None THEN "done" ELSE "module"]
    /\ UNCHANGED <<files, current_filename>>
    /\ TaskFrame

\* hsdev.client_back.module(file=file_name) is called with the default
\* timeout of the client: without answer in time the call gives nothing,
\* Utils.head_of gives None and comps stays none_comps
ModuleTimeout(t) ==
    /\ tasks[t].pc = "module"
    /\ tasks' = [tasks EXCEPT ![t].pc = "lock3"]
    /\ UNCHANGED <<files, lock, current_filename>>
    /\ TaskFrame

\* the answer to hsdev.client_back.module(file=file_name): no module, and
\* comps stays none_comps, or a module, and
\* hsdev.client_back.complete('', file_name, timeout=None) is sent
ModuleAnswer(t) ==
    /\ tasks[t].pc = "module"
    /\ \/ tasks' = [tasks EXCEPT ![t].pc = "lock3"]
       \/ tasks' = [tasks EXCEPT ![t].pc = "complete"]
    /\ UNCHANGED <<files, lock, current_filename>>
    /\ TaskFrame

\* the answer to complete('', file_name, timeout=None), from the data the
\* backend has when it answers; then make_completions, the import names
\* and sort_completions.  timeout=None: the call waits until the answer
\* comes, there is no step that gives up.
CompleteAnswer(t) ==
    /\ tasks[t].pc = "complete"
    /\ \E comps \in FreshComps(data) :
          tasks' = [tasks EXCEPT ![t] = [@ EXCEPT !.pc = "lock3", !.comps = comps]]
    /\ UNCHANGED <<files, lock, current_filename>>
    /\ TaskFrame

\* "with self.cache as cache_: cache_.files[file_name] = comps"
GetLock3(t) ==
    /\ tasks[t].pc = "lock3"
    /\ lock = 0
    /\ lock' = t
    /\ files' = DictSet(files, tasks[t].arg, tasks[t].comps)
    /\ tasks' = [tasks EXCEPT ![t].pc = "unlock3"]
    /\ UNCHANGED current_filename
    /\ TaskFrame

\* "return log_result(cache_.files[file_name])" leaves the third block
GetUnlock3(t) ==
    /\ tasks[t].pc = "unlock3"
    /\ lock' = 0
    /\ tasks' = [tasks EXCEPT ![t].pc = "done"]
    /\ UNCHANGED <<files, current_filename>>
    /\ TaskFrame

\* AutoCompletion.init_completions_async: the file of the active view, when
\* there is one, is handed to get_completions_async
InitStart(t) ==
    /\ tasks[t].pc = "init"
    /\ tasks' = [tasks EXCEPT ![t] =
                    IF active # None THEN [@ EXCEPT !.pc = "start", !.arg = active]
                    ELSE [@ EXCEPT !.pc = "done"]]
    /\ UNCHANGED <<files, lock, current_filename>>
    /\ TaskFrame

\* AutoCompletion.drop_completions_async: the "with" block
DropLock(t) ==
    /\ tasks[t].pc = "drop"
    /\ lock = 0
    /\ lock' = t
    /\ files' = DroppedFiles(files, tasks[t].arg)
    /\ tasks' = [tasks EXCEPT ![t].pc = "undrop"]
    /\ UNCHANGED current_filename
    /\ TaskFrame

DropUnlock(t) ==
    /\ tasks[t].pc = "undrop"
    /\ lock' = 0
    /\ tasks' = [tasks EXCEPT ![t].pc = "done"]
    /\ UNCHANGED <<files, current_filename>>
    /\ TaskFrame

\* AutoCompletion.get_completions up to its backend query or its "with"
\* block: the use_hsdev wrapper, "if not current_file_name: return []",
\* self.current_filename, and the cursor context get_qualified_symbol finds.
\* No view is marked for wide completion in the runs of the tasks.
ReqStart(t) ==
    /\ tasks[t].pc = "request"
    /\ IF ~use_hsdev \/ ~HasFileName(tasks[t].arg)
       THEN /\ tasks' = [tasks EXCEPT ![t].pc = "done"]
            /\ UNCHANGED current_filename
       ELSE /\ current_filename' = tasks[t].arg
            /\ \E qualified \in BOOLEAN :
                  tasks' = [tasks EXCEPT ![t].pc = IF qualified THEN "req_backend"
                                                                ELSE "req_lock"]
    /\ UNCHANGED <<files, lock>>
    /\ TaskFrame

\* the backend answers the queries of the branch "if qsymbol.module"; the
\* request returns
ReqAnswer(t) ==
    /\ tasks[t].pc = "req_backend"
    /\ tasks' = [tasks EXCEPT ![t].pc = "done"]
    /\ UNCHANGED <<files, lock, current_filename>>
    /\ TaskFrame

\* "with self.cache as cache_: completions = ..." of get_completions
ReqLock(t) ==
    /\ tasks[t].pc = "req_lock"
    /\ lock = 0
    /\ lock' = t
    /\ tasks' = [tasks EXCEPT ![t] =
                    [@ EXCEPT !.pc = "req_unlock",
                              !.comps = CachedCompletions(FALSE, tasks[t].arg),
                              !.missed = ~IsCached(files, tasks[t].arg)]]
    /\ UNCHANGED <<files, current_filename>>
    /\ TaskFrame

ReqUnlock(t) ==
    /\ tasks[t].pc = "req_unlock"
    /\ lock' = 0
    /\ tasks' = [tasks EXCEPT ![t].pc = "done"]
    /\ UNCHANGED <<files, current_filename>>
    /\ TaskFrame

\* the frame of an editor event
EventFrame ==
    UNCHANGED <<cacheVars, pragmaVars, current_filename, wide_completion, connected,
                historyVars, lock>>

\* SublimeHaskellAutocomplete.on_activated_async: a view becomes active; for a
\* Haskell source with a file name a get_completions_async task is submitted
OnActivatedAsync(file_name) ==
    /\ active' = file_name
    /\ IF file_name # None
       THEN /\ HasFree(1)
            /\ tasks' = [tasks EXCEPT ![FirstFree(1)] = NewTask("get", file_name, "start")]
       ELSE /\ active # None
            /\ UNCHANGED tasks
    /\ UNCHANGED data
    /\ EventFrame

\* update_completions_async(drop_all=True): 'drop all completions', then
\* 'init completions', are handed to Worker.run_async
update_completions_async(ts) ==
    LET d == FirstFree(1)
        i == FirstFree(d + 1)
    IN  [ts EXCEPT ![d] = NewTask("drop", None, "drop"),
                   ![i] = NewTask("init", None, "init")]

\* the tasks that are running when the backend's data changes
Overtaken(ts) ==
    [t \in TaskIds |-> IF ts[t].pc # "done" THEN [ts[t] EXCEPT !.overtaken = TRUE] ELSE ts[t]]

\* SublimeHaskellAutocomplete.on_post_save (on_new and on_load do the same)
\* for the active view: the file has changed, mark_file_dirty tells the
\* agent, whose data about the file changes, and the completions are dropped
\* and initialised anew
OnPostSave ==
    /\ active # None
    /\ data < MaxSaves
    /\ data' = data + 1
    /\ HasFree(1)
    /\ HasFree(FirstFree(1) + 1)
    /\ tasks' = update_completions_async(Overtaken(tasks))
    /\ UNCHANGED active
    /\ EventFrame

\* the editor asks for the completions of the active view: get_completions
\* runs on the interface thread, one request at a time
OnQueryCompletions ==
    /\ \A t \in TaskIds : tasks[t].kind = "request" => tasks[t].pc = "done"
    /\ HasFree(1)
    /\ tasks' = [tasks EXCEPT ![FirstFree(1)] = NewTask("request", active, "request")]
    /\ UNCHANGED <<data, active>>
    /\ EventFrame

-----------------------------------------------------------------------------
(* Specifications *)

\* the state AutoCompletion.__init__ and CompletionCache.__init__ leave;
\* the agent is not connected yet
Init ==
    /\ files = [x \in {} |-> <<>>]
    /\ cabal = <<>>
    /\ sources = <<>>
    /\ global_comps = <<>>
    /\ language_pragmas = <<>>
    /\ flags_pragmas = <<>>
    /\ current_filename = None
    /\ wide_completion = None
    /\ connected = FALSE
    /\ op = OpRec("__init__", None, NoCtx, FALSE, FALSE)
    /\ result = <<>>
    /\ queries = {}
    /\ langQueries = 0
    /\ flagQueries = 0
    /\ tasks = [t \in TaskIds |-> NoTask]
    /\ lock = 0
    /\ data = 0
    /\ active = None

SetCabal == UNCHANGED taskVars /\ \E comps \in CandLists : set_cabal(comps)

SetSources == UNCHANGED taskVars /\ \E comps \in CandLists : set_sources(comps)

DropCompletionsAsync == UNCHANGED taskVars /\ \E file_name \in FileNames \cup {None} : drop_completions_async(file_name)

GetCompletionsAsync == UNCHANGED taskVars /\ \E file_name \in FileNames \cup {None} : get_completions_async(file_name)

\* The cache: the two partitions, the merged list and the file entries
Next ==
    \/ SetCabal
    \/ SetSources
    \/ DropCompletionsAsync
    \/ GetCompletionsAsync
    \/ AgentConnection

Spec == Init /\ [][Next]_vars

\* the files whose entries the requests of SpecRequest work on: V1 shows a
\* file that gets an entry, V2 a file that never has one
RequestFiles == {"A.hs"}

RequestDrop == UNCHANGED taskVars /\ \E file_name \in RequestFiles \cup {None} : drop_completions_async(file_name)

RequestPopulate == UNCHANGED taskVars /\ \E file_name \in RequestFiles : get_completions_async(file_name)

MarkWideCompletion == UNCHANGED taskVars /\ \E view \in Views : mark_wide_completion(view)

GetCompletions == UNCHANGED taskVars /\ \E view \in Views, qsymbol \in QSymbols : get_completions(view, qsymbol)

\* The interactive request over a cache that is populated and invalidated.
\* The request reads global_comps and the file entries only, and SetCabal
\* alone makes global_comps range over every list set_cabal and set_sources
\* can leave.
RequestNext ==
    \/ SetCabal
    \/ RequestDrop
    \/ RequestPopulate
    \/ MarkWideCompletion
    \/ GetCompletions
    \/ AgentConnection

SpecRequest == Init /\ [][RequestNext]_vars

GetSpecialCompletions ==
    UNCHANGED taskVars /\ \E view \in Views, line \in PragmaLines, settings \in BackendSettings :
        get_special_completions(view, line, settings)

\* Pragma-value completion while the agent connects and disconnects
SpecialNext ==
    \/ GetSpecialCompletions
    \/ AgentConnection

SpecSpecial == Init /\ [][SpecialNext]_vars

GetImportCompletions ==
    UNCHANGED taskVars /\ \E view \in Views, line \in ImportLines : get_import_completions(view, line)

\* every beginning of a module name, the empty one and those that end with
\* a dot included
ModulePrefixes == UNION {{SubSeq(m, 1, n) : n \in 0..Len(m)} : m \in ModuleNames}

GetModuleCompletionsFor ==
    UNCHANGED taskVars /\ \E qualified_prefix \in TypedPrefixes \cup ModulePrefixes,
                             modules \in ScopeAnswers :
        get_module_completions_for_call(qualified_prefix, modules)

\* Import completion while the agent connects and disconnects
ImportNext ==
    \/ GetImportCompletions
    \/ GetModuleCompletionsFor
    \/ AgentConnection

SpecImport == Init /\ [][ImportNext]_vars

\* The tasks of the worker and the request of the editor, interleaved at
\* the boundaries of the "with self.cache" blocks and at the backend queries
TasksNext ==
    \/ \E file_name \in TaskFiles \cup {None} : OnActivatedAsync(file_name)
    \/ OnPostSave
    \/ OnQueryCompletions
    \/ \E t \in TaskIds : GetStart(t)
    \/ \E t \in TaskIds : GetLock1(t)
    \/ \E t \in TaskIds : GetUnlock1(t)
    \/ \E t \in TaskIds : GetLock2(t)
    \/ \E t \in TaskIds : GetUnlock2(t)
    \/ \E t \in TaskIds : ModuleTimeout(t)
    \/ \E t \in TaskIds : ModuleAnswer(t)
    \/ \E t \in TaskIds : CompleteAnswer(t)
    \/ \E t \in TaskIds : GetLock3(t)
    \/ \E t \in TaskIds : GetUnlock3(t)
    \/ \E t \in TaskIds : InitStart(t)
    \/ \E t \in TaskIds : DropLock(t)
    \/ \E t \in TaskIds : DropUnlock(t)
    \/ \E t \in TaskIds : ReqStart(t)
    \/ \E t \in TaskIds : ReqAnswer(t)
    \/ \E t \in TaskIds : ReqLock(t)
    \/ \E t \in TaskIds : ReqUnlock(t)
    \/ AgentConnection

SpecTasks == Init /\ [][TasksNext]_vars

\* the steps of task t that the program takes by itself: all but the
\* answers of the backend to get_completions_async, which may never come
OwnSteps(t) ==
    \/ GetStart(t)
    \/ GetLock1(t)
    \/ GetUnlock1(t)
    \/ GetLock2(t)
    \/ GetUnlock2(t)
    \/ ModuleTimeout(t)
    \/ GetLock3(t)
    \/ GetUnlock3(t)
    \/ InitStart(t)
    \/ DropLock(t)
    \/ DropUnlock(t)
    \/ ReqStart(t)
    \/ ReqAnswer(t)
    \/ ReqLock(t)
    \/ ReqUnlock(t)

\* The tasks, each thread running on as long as it has a step of its own
SpecTasksFair ==
    Init /\ [][TasksNext]_vars /\ \A t \in TaskIds : WF_vars(OwnSteps(t))

\* the files of the views that are activated in SpecRace
RaceFiles == {"A.hs", "B.hs"}

\* Population tasks alone: views of two files are activated, each activation
\* submits a get_completions_async task, and the tasks run interleaved
RaceNext ==
    \/ \E file_name \in RaceFiles : OnActivatedAsync(file_name)
    \/ \E t \in TaskIds : GetStart(t)
    \/ \E t \in TaskIds : GetLock1(t)
    \/ \E t \in TaskIds : GetUnlock1(t)
    \/ \E t \in TaskIds : GetLock2(t)
    \/ \E t \in TaskIds : GetUnlock2(t)
    \/ \E t \in TaskIds : ModuleTimeout(t)
    \/ \E t \in TaskIds : ModuleAnswer(t)
    \/ \E t \in TaskIds : CompleteAnswer(t)
    \/ \E t \in TaskIds : GetLock3(t)
    \/ \E t \in TaskIds : GetUnlock3(t)
    \/ AgentConnection

SpecRace == Init /\ [][RaceNext]_vars

-----------------------------------------------------------------------------
(* Properties of the cache, checked under Spec *)

\* C1: in every state, global_comps has no duplicate and holds exactly the
\* candidates of the last-set cabal list and the last-set sources list.
C1_MergeConsistency ==
    /\ NoDuplicates(global_comps)
    /\ Range(global_comps) = Range(cabal) \cup Range(sources)

\* set_cabal then set_sources with the same candidate in both partitions
C1_Witness ==
    /\ op.name = "set_sources"
    /\ cabal # <<>>
    /\ Range(cabal) \cap Range(sources) # {}
    /\ Len(global_comps) < Len(cabal) + Len(sources)

\* C2: drop_completions_async(p) leaves p absent and every other entry as it
\* was, drop_completions_async() leaves no entry, and both leave the cabal
\* list, the sources list and global_comps as they were.
C2_DropFrame ==
    [][op'.name = "drop_completions_async" =>
        /\ IF op'.target = None
           THEN DOMAIN files' = {}
           ELSE /\ op'.target \notin DOMAIN files'
                /\ DOMAIN files' = DOMAIN files \ {op'.target}
                /\ \A f \in DOMAIN files' : files'[f] = files[f]
        /\ cabal' = cabal
        /\ sources' = sources
        /\ global_comps' = global_comps]_vars

\* A.hs was just dropped, B.hs still has its entry, the partitions are set
C2_Witness ==
    /\ op.name = "drop_completions_async"
    /\ op.target = "A.hs"
    /\ DOMAIN files = {"B.hs"}
    /\ files["B.hs"] # <<>>
    /\ cabal # <<>>
    /\ sources # <<>>

\* C10 as claimed: in every state, global_comps and every file entry have no
\* duplicate and are sorted by display in ascending order.
C10_SortedAndDeduplicated ==
    /\ NoDuplicates(global_comps)
    /\ SortedByDisplay(global_comps)
    /\ \A f \in DOMAIN files :
          /\ NoDuplicates(files[f])
          /\ SortedByDisplay(files[f])

-----------------------------------------------------------------------------
(* Properties of the interactive request, checked under SpecRequest *)

\* the request of this step ran the body of get_completions: the backend is
\* connected and the view has a file name
RequestRuns == use_hsdev /\ ViewFile[op'.target] # None

\* the narrow answer: the entry of the file, or global_comps without one
NarrowList(file_name) ==
    IF file_name \in DOMAIN files THEN files[file_name] ELSE global_comps

\* C3 as claimed, for the requests that run: a request for the marked view is
\* answered with the keywords and global_comps and clears the marker,
\* whatever its cursor context, and a request for the same view right after
\* it is answered with the narrow list.
C3_WideWhateverContext ==
    [][(op'.name = "get_completions" /\ RequestRuns) =>
        /\ wide_completion = op'.target =>
              /\ result' = keyword_completions \o global_comps
              /\ wide_completion' = None
        /\ (op.name = "get_completions" /\ op.wide /\ op.target = op'.target) =>
              result' = keyword_completions \o NarrowList(ViewFile[op'.target])]_vars

\* C3 amended: a request that runs clears the marker exactly when the marker
\* names its view; naming no module it is answered with the keywords and
\* global_comps when it was marked and with the narrow list when it was not;
\* naming a module it is answered from the backend.  A request that does not
\* run returns [] and leaves the marker as it was.
C3_WideOneShot ==
    [][op'.name = "get_completions" =>
        IF RequestRuns
        THEN /\ op'.wide = (wide_completion = op'.target)
             /\ wide_completion' = IF wide_completion = op'.target THEN None ELSE wide_completion
             /\ op'.ctx.module = None =>
                   /\ queries' = {}
                   /\ result' = keyword_completions \o
                         (IF wide_completion = op'.target THEN global_comps
                          ELSE NarrowList(ViewFile[op'.target]))
             /\ op'.ctx.module # None =>
                   /\ queries' # {}
                   /\ \E answer \in CandLists : \E c \in Orderings(Range(answer)) :
                         result' = keyword_completions \o c
        ELSE /\ result' = <<>>
             /\ wide_completion' = wide_completion]_vars

\* a marked request that was answered with global_comps although the file
\* has a different entry, and that cleared the marker
C3_Witness ==
    /\ op.name = "get_completions"
    /\ op.wide
    /\ op.ctx.module = None
    /\ wide_completion = None
    /\ ViewFile[op.target] \in DOMAIN files
    /\ files[ViewFile[op.target]] # global_comps
    /\ global_comps # <<>>
    /\ result = keyword_completions \o global_comps

\* C4 as claimed: the list get_completions returns has no two equal
\* (display, insert) pairs.
C4_ResultDeduplicated == op.name = "get_completions" => NoDuplicates(result)

EmptyCache ==
    /\ DOMAIN files = {}
    /\ cabal = <<>>
    /\ sources = <<>>
    /\ global_comps = <<>>

\* C5 as claimed, with the backend connected: with an empty cache and a view
\* without a file name the request returns the keywords followed by
\* global_comps.
C5_KeywordsWithoutFileName ==
    (op.name = "get_completions" /\ op.conn /\ ViewFile[op.target] = None /\ EmptyCache) =>
        result = keyword_completions \o global_comps

\* C5 amended: for a view without a file name the request returns [] and
\* asks the backend nothing; with an empty cache, the backend connected, a
\* file name and no module named it returns exactly the keywords.
C5_EmptyWithoutFileName ==
    op.name = "get_completions" =>
        /\ ViewFile[op.target] = None => (result = <<>> /\ queries = {})
        /\ (ViewFile[op.target] # None /\ op.conn /\ op.ctx.module = None /\ EmptyCache) =>
              result = keyword_completions

\* a connected request on the unsaved buffer with an empty cache
C5_Witness ==
    /\ op.name = "get_completions"
    /\ op.conn
    /\ ViewFile[op.target] = None
    /\ EmptyCache
    /\ result = <<>>

\* C6 as claimed: a request that names no module and is not wide, on a view
\* with a file name, returns the keywords followed by the narrow list.
C6_NarrowAlways ==
    [][(/\ op'.name = "get_completions"
        /\ op'.ctx.module = None
        /\ wide_completion # op'.target
        /\ ViewFile[op'.target] # None) =>
        result' = keyword_completions \o NarrowList(ViewFile[op'.target])]_vars

\* C6 amended: the same, for a request made while the backend is connected.
C6_NarrowWhenConnected ==
    [][(/\ op'.name = "get_completions"
        /\ op'.ctx.module = None
        /\ wide_completion # op'.target
        /\ ViewFile[op'.target] # None
        /\ use_hsdev) =>
        result' = keyword_completions \o NarrowList(ViewFile[op'.target])]_vars

\* an unmarked request answered with the entry of its file, which differs
\* from global_comps
C6_Witness ==
    /\ op.name = "get_completions"
    /\ op.conn
    /\ ~op.wide
    /\ op.ctx.module = None
    /\ ViewFile[op.target] \in DOMAIN files
    /\ files[ViewFile[op.target]] # global_comps
    /\ files[ViewFile[op.target]] # <<>>
    /\ result = keyword_completions \o files[ViewFile[op.target]]

-----------------------------------------------------------------------------
(* Properties of pragma-value completion, checked under SpecSpecial *)

\* C7 as claimed: an entry point called while the backend is not connected
\* issues no backend query, and the entry points that answer from the
\* backend return their default, the empty list.  The backend of a pragma
\* request is taken to be unavailable when hsdev is the enabled backend and
\* is not connected.
C7_NoQueryWhenDisconnected ==
    (/\ op.name \in {"get_completions", "get_import_completions", "get_special_completions",
                     "get_completions_async", "drop_completions_async"}
     /\ ~op.conn
     /\ op.name = "get_special_completions" => op.ctx.backend = "hsdev") =>
        /\ queries = {}
        /\ op.name \in {"get_completions", "get_import_completions", "get_completions_async"} =>
              result = <<>>

\* C9 as claimed: the backend is asked at most once for each of the two lists.
C9_AtMostOneFetch == langQueries <= 1 /\ flagQueries <= 1

\* C9 amended: once a list is stored non-empty it never changes and the
\* backend is never asked for it again, and every later request for it
\* returns the stored list without a query.
C9_MemoizedOnceNonEmpty ==
    [][/\ language_pragmas # <<>> =>
            /\ language_pragmas' = language_pragmas
            /\ langQueries' = langQueries
       /\ flags_pragmas # <<>> =>
            /\ flags_pragmas' = flags_pragmas
            /\ flagQueries' = flagQueries
       /\ (/\ op'.name = "get_special_completions"
           /\ op'.ctx.auto /\ op'.ctx.language
           /\ language_pragmas # <<>>) =>
            /\ queries' = {}
            /\ result' = PragmaCompletions(language_pragmas)
       /\ (/\ op'.name = "get_special_completions"
           /\ op'.ctx.auto /\ ~op'.ctx.language /\ op'.ctx.options_ghc
           /\ flags_pragmas # <<>>) =>
            /\ queries' = {}
            /\ result' = PragmaCompletions(flags_pragmas)]_vars

\* a LANGUAGE request answered from the stored list after the one fetch
C9_Witness ==
    /\ op.name = "get_special_completions"
    /\ op.ctx.auto /\ op.ctx.language
    /\ language_pragmas # <<>>
    /\ langQueries = 1
    /\ queries = {}
    /\ result = PragmaCompletions(language_pragmas)

-----------------------------------------------------------------------------
(* Properties of import completion, checked under SpecImport *)

\* C8 as claimed: when get_import_completions handles an import-prefix line
\* whose typed text is empty or a prefix of "qualified", the qualified
\* candidate is the first element of the list it returns.
C8_QualifiedFirst ==
    (/\ op.name = "get_import_completions"
     /\ op.conn
     /\ op.ctx.auto
     /\ op.ctx.kind = "import_prefix"
     /\ ~op.ctx.qualified
     /\ (op.ctx.typed = <<>> \/ StartsWith(Qualified, op.ctx.typed))) =>
        /\ result # <<>>
        /\ result[1] = QualifiedCompletion

-----------------------------------------------------------------------------
(* Properties of module-name completion, checked under SpecImport *)

\* the modules of a call's source set that start with the typed prefix
MatchingModules == {m \in op.ctx.module_list : StartsWith(m, op.ctx.qualified_prefix)}

\* the dot-separated segment of m at index (number of segments of p) - 1,
\* counted from 0
SegmentAfter(p, m) == Join(Split(m)[(Len(Split(p)) - 1) + 1])

\* what C11 says of the list a call returns: one suggestion per distinct
\* segment of the matching modules, nothing from the other modules
ModuleSuggestionsAsClaimed ==
    /\ NoDuplicates(result)
    /\ Range(result) = {<<SegmentAfter(op.ctx.qualified_prefix, m) \o "\tmodule",
                          SegmentAfter(op.ctx.qualified_prefix, m)>> : m \in MatchingModules}

-----------------------------------------------------------------------------
(* Properties of get_completions_async run on its own, checked under Spec *)

\* a step of get_completions_async for a file that has an entry
PopulateCached == op'.name = "get_completions_async" /\ op'.target \in DOMAIN files

\* the entry is returned, no backend query is issued and the cache is as before
CachedEntryReturned ==
    /\ result' = files[op'.target]
    /\ queries' = {}
    /\ UNCHANGED <<files, cabal, sources, global_comps>>

\* C12 as stated: whenever get_completions_async(f) runs and f has an entry,
\* it returns that entry, issues no backend query and leaves the file cache,
\* both partitions and the global list unchanged.
C12_CachedAlways == [][PopulateCached => CachedEntryReturned]_vars

\* C12, amended: the same, for a run made while the backend is connected.
C12_CachedWhenConnected == [][(PopulateCached /\ op'.conn) => CachedEntryReturned]_vars

\* get_completions_async found a non-empty entry and returned it
C12_Witness ==
    /\ op.name = "get_completions_async"
    /\ op.conn
    /\ op.target \in DOMAIN files
    /\ queries = {}
    /\ result = files[op.target]
    /\ result # <<>>

\* a step of get_completions_async that finds no entry for its argument
PopulateMiss == op'.name = "get_completions_async" /\ op'.target \notin DOMAIN files

\* what C13 says of a miss.  The backend did not resolve the module of the
\* file exactly when "module" was the only query: complete('', file_name) is
\* asked for a resolved module only.
MissAsClaimed ==
    IF op'.target = None
    THEN result' = global_comps /\ files' = files
    ELSE queries' # {"module", "complete"} =>
            /\ files' = [x \in DOMAIN files \cup {op'.target} |->
                            IF x = op'.target THEN global_comps ELSE files[x]]
            /\ result' = global_comps

\* C13 as stated: on a miss, with a file name whose module the backend
\* cannot resolve the global list is stored as the entry of the file and
\* returned; with no file name the global list is returned and no entry added.
C13_MissAlways == [][PopulateMiss => MissAsClaimed]_vars

\* C13, amended: the same, for a run made while the backend is connected.
C13_MissWhenConnected == [][(PopulateMiss /\ op'.conn) => MissAsClaimed]_vars

\* an unresolved file got the non-empty global list as its entry, and a run
\* without file name would add nothing
C13_Witness ==
    /\ op.name = "get_completions_async"
    /\ op.conn
    /\ op.target # None
    /\ queries = {"module"}
    /\ global_comps # <<>>
    /\ op.target \in DOMAIN files
    /\ files[op.target] = global_comps
    /\ result = global_comps

-----------------------------------------------------------------------------
(* The frame of the interactive request, checked under SpecRequest *)

\* C18: a get_completions call, whatever the cursor context and the wide
\* marker, leaves the file cache, the cabal partition, the sources partition
\* and the global list as they were.
C18_RequestWritesNothing ==
    [][op'.name = "get_completions" => UNCHANGED <<files, cabal, sources, global_comps>>]_vars

\* a wide request on a file without entry went through over a cache that
\* holds a global list: it consumed the marker, set current_filename and
\* added no entry
C18_Witness ==
    /\ op.name = "get_completions"
    /\ op.conn
    /\ op.wide
    /\ wide_completion = None
    /\ current_filename = "B.hs"
    /\ "B.hs" \notin DOMAIN files
    /\ "A.hs" \in DOMAIN files
    /\ global_comps # <<>>

-----------------------------------------------------------------------------
(* Concurrent population, checked under SpecRace *)

\* the get_completions_async tasks for file_name that found no entry under
\* the first lock
RacingTasks(file_name) ==
    {t \in TaskIds : /\ tasks[t].kind = "get"
                     /\ tasks[t].arg = file_name
                     /\ tasks[t].missed}

\* once two or more tasks that observed file_name as not cached have all
\* finished, file_name has an entry, and it is the list one of them resolved
RaceSettled ==
    \A file_name \in RaceFiles :
        (/\ Cardinality(RacingTasks(file_name)) >= 2
         /\ \A t \in RacingTasks(file_name) : tasks[t].pc = "done")
        => /\ file_name \in DOMAIN files
           /\ files[file_name] \in {tasks[t].comps : t \in RacingTasks(file_name)}

\* a step changes the entry of a file only when it is the store of a task for
\* that file
OtherEntriesKept ==
    \A file_name \in DOMAIN files :
        (file_name \notin DOMAIN files' \/ files'[file_name] # files[file_name])
        => \E t \in TaskIds : /\ tasks[t].arg = file_name
                               /\ tasks[t].pc = "lock3"
                               /\ tasks'[t].pc = "unlock3"

\* C14: when get_completions_async tasks for one file run concurrently and
\* each observes the file as not cached, then in every interleaving, once
\* they have finished, the file has one entry, the list resolved by one of
\* them, and no step of theirs touches the entry of another file.
C14_LastWriteWins == [][RaceSettled' /\ OtherEntriesKept]_vars

\* two tasks for A.hs both missed, resolved different lists (one got no
\* module from the backend) and finished; the entry of B.hs is in place
C14_Witness ==
    /\ tasks[1].kind = "get" /\ tasks[1].arg = "A.hs" /\ tasks[1].missed
    /\ tasks[2].kind = "get" /\ tasks[2].arg = "A.hs" /\ tasks[2].missed
    /\ tasks[1].pc = "done"
    /\ tasks[2].pc = "done"
    /\ tasks[1].comps # tasks[2].comps
    /\ files["A.hs"] = tasks[1].comps
    /\ "B.hs" \in DOMAIN files
    /\ files["B.hs"] # <<>>

-----------------------------------------------------------------------------
(* Invalidation and population, checked under SpecTasks *)

AllFinished == \A t \in TaskIds : tasks[t].pc = "done"

\* the population tasks for file_name: get_completions_async submitted for it
\* or called by init_completions_async
PopulationTasks(file_name) ==
    {t \in TaskIds : tasks[t].kind \in {"get", "init"} /\ tasks[t].arg = file_name}

DropTasks == {t \in TaskIds : tasks[t].kind = "drop"}

RequestMissReturns(t) ==
    /\ tasks[t].kind = "request"
    /\ tasks[t].pc = "req_unlock"
    /\ tasks[t].missed
    /\ tasks'[t].pc = "done"

\* C16: when a get_completions request for a file without entry returns, a
\* population task for the file is under way (the request has triggered it,
\* or one was running already).
C16_MissTriggersPopulation ==
    [][\A t \in TaskIds :
          RequestMissReturns(t) =>
             \E u \in TaskIds : /\ tasks'[u].kind \in {"get", "init"}
                                 /\ tasks'[u].arg = tasks[t].arg
                                 /\ tasks'[u].pc # "done"]_vars

\* C17: every get_completions_async task that is started finishes, whether
\* the backend answers its queries or not.
C17_PopulationFinishes ==
    \A t \in TaskIds : (tasks[t].kind = "get") ~> (tasks[t].pc = "done")

\* the positions at which a task or the request waits for the backend
WaitingPcs == {"module", "complete", "req_backend"}

\* the positions inside a "with self.cache" block
HoldingPcs == {"return1", "unlock1", "unlock2", "unlock3", "undrop", "req_unlock"}

\* C19: no task and no request holds the lock of the cache while a backend
\* query of its own is in flight; whoever holds the lock is inside a "with"
\* block and leaves it by a step of its own, so a task that waits for the
\* backend keeps nobody from the cache.
C19_NoQueryUnderLock ==
    /\ \A t \in TaskIds : tasks[t].pc \in WaitingPcs => lock # t
    /\ lock # 0 => tasks[lock].pc \in HoldingPcs

\* a population task waits for the answer to complete('', file_name) while
\* a drop task is inside its "with" block
C19_Witness ==
    \E t, u \in TaskIds :
        /\ tasks[t].kind = "get"
        /\ tasks[t].pc = "complete"
        /\ tasks[u].kind = "drop"
        /\ tasks[u].pc = "undrop"
        /\ lock = u

\* the two tasks of one update_completions_async(drop_all=True) have
\* finished, the init task found a named file active and the backend
\* connected, the backend answered its queries when it had any, and nothing
\* else has run since the update was issued
UpdateFinished(d, i) ==
    /\ tasks[d].kind = "drop" /\ tasks[d].pc = "done"
    /\ tasks[i].kind = "init" /\ tasks[i].pc = "done"
    /\ tasks[i].arg # None
    /\ tasks[i].ran
    /\ tasks[i].missed => tasks[i].comps \in FreshComps(data)
    /\ data = 1
    /\ \A t \in TaskIds \ {d, i} :
          \/ IsFree(t)
          \/ t < d /\ tasks[t].pc = "done" /\ ~tasks[t].overtaken

\* C20: once the 'drop all completions' and the 'init completions' task of
\* an update have both finished, the active file has an entry, in whatever
\* order the steps of the two tasks were taken.
C20_EntryAfterUpdate ==
    \A d, i \in TaskIds : UpdateFinished(d, i) => tasks[i].arg \in DOMAIN files

-----------------------------------------------------------------------------
(* The segment index of module_next_name, checked under SpecImport *)

\* C21: for the typed prefix of a call of get_module_completions_for, be it
\* empty or ended by a dot, and every module of the source set that starts
\* with it, the index (number of segments of the prefix) - 1 is within the
\* segments of the module: module_next_name does not fail, and no suggestion
\* of the call stands for a failed computation.
C21_IndexInRange ==
    op.name = "get_module_completions_for" =>
        /\ \A m \in MatchingModules :
              /\ Len(Split(op.ctx.qualified_prefix)) - 1 < Len(Split(m))
              /\ module_next_name(op.ctx.qualified_prefix, m) # IndexError
        /\ \A i \in 1..Len(result) : result[i][2] # Join(IndexError)

\* the prefix "Data." over a source set with Data.List and Data.Map gave a
\* suggestion for each
C21_Witness ==
    /\ op.name = "get_module_completions_for"
    /\ op.conn
    /\ op.ctx.qualified_prefix = <<"D", "a", "t", "a", ".">>
    /\ op.ctx.module_list = {Data_List, Data_Map}
    /\ Range(result) = {<<"List\tmodule", "List">>, <<"Map\tmodule", "Map">>}

====
